---- MODULE Spec2Model ----
(***************************************************************************)
(* A model of LRUCache (src/index.ts): a Map from keys to the entries of   *)
(* a preallocated doubly-linked priority list.  Entries are heap objects,  *)
(* modelled as positions 1..n of the sequence `entries`; a reference to an *)
(* entry is its position and the JavaScript value undefined is 0.          *)
(***************************************************************************)
EXTENDS Integers, Sequences, FiniteSets, TLC

\* ---------------------------------------------------------------- bounds

\* The largest capacity handed to the constructor.
MaxCapacity == 3

\* How many invalid capacities (0, -1, ...) the constructor is tried with.
MaxInvalid == 2

\* How many ordinary keys are used next to the marker `empty` as a key.
MaxOrdinaryKeys == 2

\* ------------------------------------------------------------- constants

\* export const empty = Symbol(): the unoccupied marker and the miss result.
empty == -1

\* The JavaScript value undefined: an absent link, and a value a caller may
\* store.
undefined == 0

\* Keys a caller uses; one more than the largest capacity, so that a full
\* cache always has a key that is not present.
Keys == 1 .. (MaxCapacity + 1)

\* Values a caller can hand to put.  The cache never inspects a value, so
\* two of them stand for all; V is unconstrained, so undefined and the
\* exported symbol `empty` are both storable.
Values == {undefined, empty}

\* The capacities the constructor is called with.
Capacities == (1 - MaxInvalid) .. MaxCapacity

VARIABLES
  capacity,          \* the constructor's argument
  constructed,       \* whether the constructor returned an object
  entryMap,          \* #entryMap: Map<K, DoublyLinkedListEntry>
  entries,           \* the heap of DoublyLinkedListEntry objects
  priorityListHead,  \* #priorityListHead
  priorityListEnd,   \* #priorityListEnd
  ref,               \* history: present pairs, most recently touched first
  credits,           \* history: deletions not yet followed by an insertion
  pure,              \* history: only puts of distinct keys so far
  hist               \* history: those puts in order, while pure

vars == <<capacity, constructed, entryMap, entries, priorityListHead,
          priorityListEnd, ref, credits, pure, hist>>

\* The private fields of the object.
this ==
  [entryMap |-> entryMap, entries |-> entries,
   priorityListHead |-> priorityListHead, priorityListEnd |-> priorityListEnd]

\* ----------------------------------------------------------- the heap

\* Mutant of NewEntry: a new entry is not linked back to the entry before
\* it (prev: priorityListPtr of lines 23 and 28 is prev: undefined).
NewEntry_PrevNotLinked(prev) ==
  [key |-> empty, value |-> empty, prev |-> undefined, next |-> undefined]

\* { value: empty, key: empty, prev, next: undefined }
NewEntry(prev) ==
  [key |-> empty, value |-> empty, prev |-> prev, next |-> undefined]

\* new Map()
NewMap == [k \in {} |-> undefined]

\* Map.prototype.delete
MapDelete(m, key) == [k \in (DOMAIN m) \ {key} |-> m[k]]

\* Map.prototype.set
MapSet(m, key, e) == [k \in (DOMAIN m) \cup {key} |-> IF k = key THEN e ELSE m[k]]

\* Map.prototype.has / the truthiness of Map.prototype.get's result
MapHas(m, key) == key \in DOMAIN m

\* The result of a method: the object afterwards, the value returned and
\* whether a TypeError was thrown (a property of undefined was accessed).
Result(c, value) == [this |-> c, value |-> value, threw |-> FALSE]

Throw(c) == [this |-> c, value |-> undefined, threw |-> TRUE]

\* -------------------------------------------------------- constructor

\* Mutant of ConstructorLoop: the loop runs once more (the test of line 22
\* is i < capacity).
RECURSIVE ConstructorLoop_OneMore(_, _, _, _)
ConstructorLoop_OneMore(es, priorityListPtr, i, cap) ==
  IF i < cap
  THEN LET new == Len(es) + 1
           linked == [es EXCEPT ![priorityListPtr].next = new]
       IN ConstructorLoop_OneMore(Append(linked, NewEntry(priorityListPtr)), new, i + 1, cap)
  ELSE [entries |-> es, priorityListPtr |-> priorityListPtr]

\* for (let i = 1; i < capacity - 1; ++i) { ... }
RECURSIVE ConstructorLoop(_, _, _, _)
ConstructorLoop(es, priorityListPtr, i, cap) ==
  IF i < cap - 1
  THEN LET new == Len(es) + 1
           linked == [es EXCEPT ![priorityListPtr].next = new]
       IN ConstructorLoop(Append(linked, NewEntry(priorityListPtr)), new, i + 1, cap)
  ELSE [entries |-> es, priorityListPtr |-> priorityListPtr]

\* constructor(capacity), for capacity >= 1
Constructor(cap) ==
  LET head == 1
      l == ConstructorLoop(<<NewEntry(undefined)>>, head, 1, cap)
  IN IF cap > 1
     THEN LET end == Len(l.entries) + 1
              es == Append(l.entries, NewEntry(l.priorityListPtr))
          IN [entryMap |-> NewMap,
              entries |-> [es EXCEPT ![l.priorityListPtr].next = end],
              priorityListHead |-> head, priorityListEnd |-> end]
     ELSE [entryMap |-> NewMap, entries |-> l.entries,
           priorityListHead |-> head, priorityListEnd |-> head]

\* Mutant of ConstructorThrows: capacity 0 is accepted (the test of line 17
\* is capacity < 0).
ConstructorThrows_ZeroAccepted(cap) == cap < 0

\* if (capacity < 1) throw new Error('Capacity must be a positive integer')
ConstructorThrows(cap) == cap < 1

\* ------------------------------------------------------------ methods

\* Mutant of promoteToHeadOfPriorityList: promoting the end entry leaves
\* #priorityListEnd on it (line 38 is missing).
promoteToHead_EndNotUpdated(c, listEntry) ==
  IF c.priorityListHead = listEntry THEN Result(c, undefined)
  ELSE
    LET e == c.entries[listEntry]
        c2 == IF c.priorityListEnd = listEntry THEN c
              ELSE [c EXCEPT !.entries[e.next].prev = e.prev]
        c3 == [c2 EXCEPT !.entries[e.prev].next = e.next]
    IN Result([c3 EXCEPT !.entries[listEntry].prev = undefined,
                         !.entries[listEntry].next = c3.priorityListHead,
                         !.entries[c3.priorityListHead].prev = listEntry,
                         !.priorityListHead = listEntry],
              undefined)

\* Mutant of promoteToHeadOfPriorityList: the head is not recognised (line
\* 36 is missing), so promoting it reads its undefined prev.
promoteToHead_NoHeadCheck(c, listEntry) ==
  LET e == c.entries[listEntry]
      atEnd == c.priorityListEnd = listEntry
      c1 == IF atEnd THEN [c EXCEPT !.priorityListEnd = e.prev] ELSE c
  IN IF ~atEnd /\ e.next = undefined THEN Throw(c)
     ELSE
       LET c2 == IF atEnd THEN c1
                 ELSE [c1 EXCEPT !.entries[e.next].prev = e.prev]
           e2 == c2.entries[listEntry]
       IN IF e2.prev = undefined THEN Throw(c2)
          ELSE
            LET c3 == [c2 EXCEPT !.entries[e2.prev].next = e2.next]
            IN Result([c3 EXCEPT !.entries[listEntry].prev = undefined,
                                 !.entries[listEntry].next = c3.priorityListHead,
                                 !.entries[c3.priorityListHead].prev = listEntry,
                                 !.priorityListHead = listEntry],
                      undefined)

\* Mutant of promoteToHeadOfPriorityList: the predecessor keeps pointing at
\* the promoted entry (line 45 is missing).
promoteToHead_PrevNextNotRelinked(c, listEntry) ==
  IF c.priorityListHead = listEntry THEN Result(c, undefined)
  ELSE
    LET e == c.entries[listEntry]
        c2 == IF c.priorityListEnd = listEntry
              THEN [c EXCEPT !.priorityListEnd = e.prev]
              ELSE [c EXCEPT !.entries[e.next].prev = e.prev]
    IN Result([c2 EXCEPT !.entries[listEntry].prev = undefined,
                         !.entries[listEntry].next = c2.priorityListHead,
                         !.entries[c2.priorityListHead].prev = listEntry,
                         !.priorityListHead = listEntry],
              undefined)

\* promoteToHeadOfPriorityList(listEntry)
promoteToHeadOfPriorityList(c, listEntry) ==
  IF c.priorityListHead = listEntry THEN Result(c, undefined)
  ELSE
    LET e == c.entries[listEntry]
        atEnd == c.priorityListEnd = listEntry
        \* this.#priorityListEnd = this.#priorityListEnd.prev!
        c1 == IF atEnd THEN [c EXCEPT !.priorityListEnd = e.prev] ELSE c
    IN IF ~atEnd /\ e.next = undefined THEN Throw(c)
       ELSE
         LET \* listEntry.next!.prev = listEntry.prev
             c2 == IF atEnd THEN c1
                   ELSE [c1 EXCEPT !.entries[e.next].prev = e.prev]
             e2 == c2.entries[listEntry]
         IN IF e2.prev = undefined THEN Throw(c2)
            ELSE
              LET \* listEntry.prev!.next = listEntry.next
                  c3 == [c2 EXCEPT !.entries[e2.prev].next = e2.next]
                  \* listEntry.prev = undefined; listEntry.next = head
                  c4 == [c3 EXCEPT !.entries[listEntry].prev = undefined,
                                   !.entries[listEntry].next = c3.priorityListHead]
              IN IF c4.priorityListHead = undefined THEN Throw(c4)
                 ELSE
                   \* this.#priorityListHead.prev = listEntry
                   \* this.#priorityListHead = listEntry
                   Result([c4 EXCEPT !.entries[c4.priorityListHead].prev = listEntry,
                                     !.priorityListHead = listEntry],
                          undefined)

\* Mutant of get: the hit is returned without the promotion of line 57.
get_NoPromotion(c, key) ==
  IF ~MapHas(c.entryMap, key) THEN Result(c, empty)
  ELSE Result(c, c.entries[c.entryMap[key]].value)

\* Mutant of get: a miss returns undefined, as a Map would (line 56 is a
\* bare return).
get_MissReturnsUndefined(c, key) ==
  IF ~MapHas(c.entryMap, key) THEN Result(c, undefined)
  ELSE
    LET cacheEntry == c.entryMap[key]
        p == promoteToHeadOfPriorityList(c, cacheEntry)
    IN IF p.threw THEN p
       ELSE Result(p.this, p.this.entries[cacheEntry].value)

\* get(key)
get(c, key) ==
  IF ~MapHas(c.entryMap, key) THEN Result(c, empty)
  ELSE
    LET cacheEntry == c.entryMap[key]
        p == promoteToHeadOfPriorityList(c, cacheEntry)
    IN IF p.threw THEN p
       ELSE Result(p.this, p.this.entries[cacheEntry].value)

\* Mutant of putAtEnd: the end entry's key stays in the map (line 69 is
\* missing).
putAtEnd_NoEviction(c, key, value) ==
  LET end == c.priorityListEnd
      formerPriorityListEndPrev == c.entries[end].prev
      c2 == [c EXCEPT !.entries[end].key = key,
                      !.entries[end].value = value,
                      !.entryMap = MapSet(c.entryMap, key, end)]
  IN IF formerPriorityListEndPrev = undefined THEN Result(c2, undefined)
     ELSE Result([c2 EXCEPT !.entries[end].next = c2.priorityListHead,
                            !.entries[end].prev = undefined,
                            !.entries[c2.priorityListHead].prev = end,
                            !.priorityListHead = end,
                            !.priorityListEnd = formerPriorityListEndPrev,
                            !.entries[formerPriorityListEndPrev].next = undefined],
                 undefined)

\* Mutant of putAtEnd: the reclaimed entry stays at the end of the list
\* (lines 79 to 86 are missing).
putAtEnd_NotMovedToHead(c, key, value) ==
  LET end == c.priorityListEnd
      endKey == c.entries[end].key
      c1 == IF endKey # empty
            THEN [c EXCEPT !.entryMap = MapDelete(c.entryMap, endKey)]
            ELSE c
  IN Result([c1 EXCEPT !.entries[end].key = key,
                       !.entries[end].value = value,
                       !.entryMap = MapSet(c1.entryMap, key, end)],
            undefined)

\* Mutant of putAtEnd: the relinking is not guarded (the test of line 79 is
\* missing), so with one entry the end becomes undefined and line 85 throws.
putAtEnd_NoPrevCheck(c, key, value) ==
  LET end == c.priorityListEnd
      endKey == c.entries[end].key
      c1 == IF endKey # empty
            THEN [c EXCEPT !.entryMap = MapDelete(c.entryMap, endKey)]
            ELSE c
      formerPriorityListEndPrev == c1.entries[end].prev
      c2 == [c1 EXCEPT !.entries[end].key = key,
                       !.entries[end].value = value,
                       !.entryMap = MapSet(c1.entryMap, key, end)]
      c3 == [c2 EXCEPT !.entries[end].next = c2.priorityListHead,
                       !.entries[end].prev = undefined]
      c4 == [c3 EXCEPT !.entries[c3.priorityListHead].prev = end,
                       !.priorityListHead = end,
                       !.priorityListEnd = formerPriorityListEndPrev]
  IN IF formerPriorityListEndPrev = undefined THEN Throw(c4)
     ELSE Result([c4 EXCEPT !.entries[formerPriorityListEndPrev].next = undefined],
                 undefined)

\* The part of put(key, value) that reclaims the end of the list (lines
\* 69 to 86), for a key the map does not hold.
putAtEnd(c, key, value) ==
  IF c.priorityListEnd = undefined THEN Throw(c)
  ELSE
    LET end == c.priorityListEnd
        endKey == c.entries[end].key
        \* if (end.key !== empty) this.#entryMap.delete(end.key)
        c1 == IF endKey # empty
              THEN [c EXCEPT !.entryMap = MapDelete(c.entryMap, endKey)]
              ELSE c
        formerPriorityListEndPrev == c1.entries[end].prev
        c2 == [c1 EXCEPT !.entries[end].key = key,
                         !.entries[end].value = value,
                         !.entryMap = MapSet(c1.entryMap, key, end)]
    IN IF formerPriorityListEndPrev = undefined THEN Result(c2, undefined)
       ELSE
         LET c3 == [c2 EXCEPT !.entries[end].next = c2.priorityListHead,
                              !.entries[end].prev = undefined]
         IN IF c3.priorityListHead = undefined THEN Throw(c3)
            ELSE
              LET c4 == [c3 EXCEPT !.entries[c3.priorityListHead].prev = end,
                                   !.priorityListHead = end,
                                   !.priorityListEnd = formerPriorityListEndPrev]
              IN Result([c4 EXCEPT !.entries[formerPriorityListEndPrev].next = undefined],
                        undefined)

\* Mutant of put: the value of a key the map holds is not overwritten
\* (line 64 is missing).
put_ValueNotOverwritten(c, key, value) ==
  IF MapHas(c.entryMap, key)
  THEN promoteToHeadOfPriorityList(c, c.entryMap[key])
  ELSE putAtEnd(c, key, value)

\* Mutant of put: a key the map holds is overwritten but not promoted (line
\* 65 is missing).
put_ExistingNotPromoted(c, key, value) ==
  IF MapHas(c.entryMap, key)
  THEN Result([c EXCEPT !.entries[c.entryMap[key]].value = value], undefined)
  ELSE putAtEnd(c, key, value)

\* put(key, value)
put(c, key, value) ==
  IF MapHas(c.entryMap, key)
  THEN LET cacheEntry == c.entryMap[key]
       IN promoteToHeadOfPriorityList(
            [c EXCEPT !.entries[cacheEntry].value = value], cacheEntry)
  ELSE putAtEnd(c, key, value)

\* Mutant of moveToEnd: the freed entry stays where it is (lines 101 to 114
\* are missing).
moveToEnd_NotRelocated(c, cacheEntry) == Result(c, undefined)

\* Mutant of moveToEnd: the former end is not linked to the relocated
\* entry (line 112 is missing).
moveToEnd_EndNextNotLinked(c, cacheEntry) ==
  IF cacheEntry = c.priorityListEnd THEN Result(c, undefined)
  ELSE
    LET e == c.entries[cacheEntry]
        c2 == IF cacheEntry = c.priorityListHead
              THEN [c EXCEPT !.priorityListHead = e.next,
                             !.entries[e.next].prev = undefined]
              ELSE [c EXCEPT !.entries[e.next].prev = e.prev,
                             !.entries[e.prev].next = e.next]
    IN Result([c2 EXCEPT !.entries[cacheEntry].prev = c2.priorityListEnd,
                         !.entries[cacheEntry].next = undefined,
                         !.priorityListEnd = cacheEntry],
              undefined)

\* Mutant of moveToEnd: the head is treated like the end and stays where it
\* is (line 101 also tests cacheEntry !== this.#priorityListHead).
moveToEnd_HeadStaysInPlace(c, cacheEntry) ==
  IF cacheEntry = c.priorityListEnd \/ cacheEntry = c.priorityListHead
  THEN Result(c, undefined)
  ELSE
    LET e == c.entries[cacheEntry]
        c1 == [c EXCEPT !.entries[e.next].prev = e.prev,
                        !.entries[e.prev].next = e.next]
    IN Result([c1 EXCEPT !.entries[cacheEntry].prev = c1.priorityListEnd,
                         !.entries[cacheEntry].next = undefined,
                         !.entries[c1.priorityListEnd].next = cacheEntry,
                         !.priorityListEnd = cacheEntry],
              undefined)

\* The part of delete(key) that moves the entry to the end of the list
\* (lines 101 to 114).
moveToEnd(c, cacheEntry) ==
  IF cacheEntry = c.priorityListEnd THEN Result(c, undefined)
  ELSE
    LET e == c.entries[cacheEntry]
        unlinked ==
          IF cacheEntry = c.priorityListHead
          THEN \* head = head.next!; head.prev = undefined
               IF e.next = undefined
               THEN Throw([c EXCEPT !.priorityListHead = undefined])
               ELSE Result([c EXCEPT !.priorityListHead = e.next,
                                     !.entries[e.next].prev = undefined],
                           undefined)
          ELSE \* cacheEntry.next!.prev = prev; cacheEntry.prev!.next = next
               IF e.next = undefined THEN Throw(c)
               ELSE LET c1 == [c EXCEPT !.entries[e.next].prev = e.prev]
                        e1 == c1.entries[cacheEntry]
                    IN IF e1.prev = undefined THEN Throw(c1)
                       ELSE Result([c1 EXCEPT !.entries[e1.prev].next = e1.next],
                                   undefined)
    IN IF unlinked.threw THEN unlinked
       ELSE
         LET c2 == unlinked.this
             c3 == [c2 EXCEPT !.entries[cacheEntry].prev = c2.priorityListEnd,
                              !.entries[cacheEntry].next = undefined]
         IN IF c3.priorityListEnd = undefined THEN Throw(c3)
            ELSE Result([c3 EXCEPT !.entries[c3.priorityListEnd].next = cacheEntry,
                                   !.priorityListEnd = cacheEntry],
                        undefined)

\* Mutant of delete: the key stays in the map (line 99 is missing).
delete_KeepsMapEntry(c, key) ==
  IF ~MapHas(c.entryMap, key) THEN Result(c, FALSE)
  ELSE
    LET cacheEntry == c.entryMap[key]
        m == moveToEnd(c, cacheEntry)
    IN IF m.threw THEN m
       ELSE Result([m.this EXCEPT !.entries[cacheEntry].key = empty,
                                  !.entries[cacheEntry].value = empty],
                   TRUE)

\* Mutant of delete: the miss is not checked (line 97 is missing), so for a
\* key the map does not hold cacheEntry is undefined and line 106 throws.
delete_NoMissCheck(c, key) ==
  IF ~MapHas(c.entryMap, key) THEN Throw(c)
  ELSE
    LET cacheEntry == c.entryMap[key]
        c1 == [c EXCEPT !.entryMap = MapDelete(c.entryMap, key)]
        m == moveToEnd(c1, cacheEntry)
    IN IF m.threw THEN m
       ELSE Result([m.this EXCEPT !.entries[cacheEntry].key = empty,
                                  !.entries[cacheEntry].value = empty],
                   TRUE)

\* Mutant of delete: the freed entry keeps its key and value (lines 116 and
\* 117 are missing).
delete_EntryNotCleared(c, key) ==
  IF ~MapHas(c.entryMap, key) THEN Result(c, FALSE)
  ELSE
    LET cacheEntry == c.entryMap[key]
        c1 == [c EXCEPT !.entryMap = MapDelete(c.entryMap, key)]
        m == moveToEnd(c1, cacheEntry)
    IN IF m.threw THEN m ELSE Result(m.this, TRUE)

\* delete(key)
delete(c, key) ==
  IF ~MapHas(c.entryMap, key) THEN Result(c, FALSE)
  ELSE
    LET cacheEntry == c.entryMap[key]
        c1 == [c EXCEPT !.entryMap = MapDelete(c.entryMap, key)]
        m == moveToEnd(c1, cacheEntry)
    IN IF m.threw THEN m
       ELSE Result([m.this EXCEPT !.entries[cacheEntry].key = empty,
                                  !.entries[cacheEntry].value = empty],
                   TRUE)

\* set(key, value): put, then return this
set(c, key, value) ==
  LET r == put(c, key, value)
  IN IF r.threw THEN r ELSE Result(r.this, "this")

\* ------------------------------------------------- the touch history

\* The keys of a sequence of pairs.
RefKeys(s) == {s[i].key : i \in DOMAIN s}

\* The value paired with a key of the sequence.
RefValue(s, key) == (CHOOSE i \in DOMAIN s : s[i].key = key)

\* The sequence without the pair of a key.
RefDelete(s, key) ==
  LET Other(p) == p.key # key
  IN SelectSeq(s, Other)

\* A read of a present key makes it the most recently touched.
RefGet(s, key) ==
  IF key \in RefKeys(s)
  THEN <<s[RefValue(s, key)]>> \o RefDelete(s, key)
  ELSE s

\* A write makes the key the most recently touched; a new key written to
\* a sequence of `cap` pairs drops the least recently touched pair.
RefPut(s, key, value, cap) ==
  LET kept == IF key \in RefKeys(s) THEN RefDelete(s, key)
              ELSE IF Len(s) >= cap THEN SubSeq(s, 1, Len(s) - 1)
              ELSE s
  IN <<[key |-> key, value |-> value]>> \o kept

\* --------------------------------------------------------- the system

Init ==
  /\ capacity \in Capacities
  /\ constructed = ~ConstructorThrows(capacity)
  /\ IF ConstructorThrows(capacity)
     THEN /\ entryMap = NewMap
          /\ entries = <<>>
          /\ priorityListHead = undefined
          /\ priorityListEnd = undefined
     ELSE LET c == Constructor(capacity)
          IN /\ entryMap = c.entryMap
             /\ entries = c.entries
             /\ priorityListHead = c.priorityListHead
             /\ priorityListEnd = c.priorityListEnd
  /\ ref = <<>>
  /\ credits = 0
  /\ pure = TRUE
  /\ hist = <<>>

\* The effect of a method call on the object.
Call(r) ==
  /\ entryMap' = r.this.entryMap
  /\ entries' = r.this.entries
  /\ priorityListHead' = r.this.priorityListHead
  /\ priorityListEnd' = r.this.priorityListEnd
  /\ UNCHANGED <<capacity, constructed>>

\* The history of a write.
Written(key, value) ==
  /\ ref' = RefPut(ref, key, value, capacity)
  /\ credits' = IF key \notin RefKeys(ref) /\ credits > 0 THEN credits - 1 ELSE credits
  /\ IF pure /\ key \notin RefKeys(hist)
     THEN pure' = TRUE /\ hist' = Append(hist, [key |-> key, value |-> value])
     ELSE pure' = FALSE /\ hist' = <<>>

Get(key) ==
  /\ constructed
  /\ LET r == get(this, key) IN Call(r)
  /\ ref' = RefGet(ref, key)
  /\ pure' = FALSE /\ hist' = <<>>
  /\ UNCHANGED credits

Put(key, value) ==
  /\ constructed
  /\ LET r == put(this, key, value) IN Call(r)
  /\ Written(key, value)

Set(key, value) ==
  /\ constructed
  /\ LET r == set(this, key, value) IN Call(r)
  /\ Written(key, value)

Delete(key) ==
  /\ constructed
  /\ LET r == delete(this, key) IN Call(r)
  /\ ref' = RefDelete(ref, key)
  /\ credits' = IF key \in RefKeys(ref) /\ credits < capacity
                THEN credits + 1 ELSE credits
  /\ pure' = FALSE /\ hist' = <<>>

Next ==
  \/ \E key \in Keys : Get(key)
  \/ \E key \in Keys, value \in Values : Put(key, value)
  \/ \E key \in Keys, value \in Values : Set(key, value)
  \/ \E key \in Keys : Delete(key)

Spec == Init /\ [][Next]_vars

\* Every key put accepts: K is unconstrained, so the exported symbol `empty`
\* is a key a caller can pass (LRUCache<symbol, V>).
KeysAccepted == {empty} \cup (1 .. MaxOrdinaryKeys)

NextAnyKey ==
  \/ \E key \in KeysAccepted : Get(key)
  \/ \E key \in KeysAccepted, value \in Values : Put(key, value)
  \/ \E key \in KeysAccepted, value \in Values : Set(key, value)
  \/ \E key \in KeysAccepted : Delete(key)

SpecAnyKey == Init /\ [][NextAnyKey]_vars

\* ------------------------------------------------------- observations

\* The keys the cache holds.
Held(c) == DOMAIN c.entryMap

\* The entries reached from `e` by following next, at most n of them.
RECURSIVE Walk(_, _, _)
Walk(c, e, n) ==
  IF e = undefined \/ n = 0 THEN <<>>
  ELSE <<e>> \o Walk(c, c.entries[e].next, n - 1)

\* The priority list from its head.
List(c) == Walk(c, c.priorityListHead, Len(c.entries) + 1)

\* The keys of the occupied entries, in list order.
ListKeys(c) ==
  LET l == List(c)
      ks == [i \in DOMAIN l |-> c.entries[l[i]].key]
      Occupied(k) == k # empty
  IN SelectSeq(ks, Occupied)

\* The least recently touched key of the history.
LeastRecent == ref[Len(ref)].key

\* The value the history pairs with a key.
Stored(key) == ref[RefValue(ref, key)].value

\* ------------------------------------------------------------- claims

\* C1: when the cache holds `capacity` keys, put(k, v) of a key that is not
\* present removes exactly one key, the least recently touched one, which is
\* the key of the end entry; afterwards get(k) yields v and every other key
\* that was present is still present with its value.
C1_PutEvictsLeastRecentlyTouched ==
  (constructed /\ Cardinality(Held(this)) = capacity) =>
    \A key \in Keys \ Held(this), value \in Values :
      LET r == put(this, key, value)
      IN /\ ~r.threw
         /\ Len(ref) = capacity
         /\ entries[priorityListEnd].key = LeastRecent
         /\ LeastRecent \in Held(this)
         /\ Held(r.this) = (Held(this) \ {LeastRecent}) \cup {key}
         /\ get(r.this, key).value = value
         /\ \A other \in Held(this) \ {LeastRecent} :
              get(r.this, other).value = get(this, other).value

\* C1 witness: a full cache of capacity 2 or more in which a put has just
\* evicted the first key ever written.
C1_Witness ==
  /\ constructed /\ capacity >= 2 /\ pure
  /\ Len(hist) = capacity + 1
  /\ Cardinality(Held(this)) = capacity
  /\ hist[1].key \notin Held(this)

\* C2: the number of keys the cache holds, and the number of occupied
\* entries, never exceeds the capacity.
C2_SizeWithinCapacity ==
  constructed =>
    /\ Cardinality(Held(this)) <= capacity
    /\ Cardinality({e \in DOMAIN entries : entries[e].key # empty}) <= capacity

\* C2 witness: a full cache that has already dropped two keys.
C2_Witness ==
  /\ constructed
  /\ Cardinality(Held(this)) = capacity
  /\ Len(ref) = capacity
  /\ pure /\ Len(hist) = capacity + 2

\* C3: after c + n puts of pairwise distinct keys on a fresh cache of
\* capacity c, exactly the last c keys are present with their values and the
\* n keys written first are misses.
C3_LastCapacityKeysRemain ==
  (constructed /\ pure) =>
    \A i \in DOMAIN hist :
      IF i > Len(hist) - capacity
      THEN /\ hist[i].key \in Held(this)
           /\ get(this, hist[i].key).value = hist[i].value
      ELSE /\ hist[i].key \notin Held(this)
           /\ get(this, hist[i].key).value = empty

\* C3 witness: capacity 3 and four distinct keys written, the last of them
\* with a value that is not the marker.
C3_Witness ==
  /\ constructed /\ pure /\ capacity = 3
  /\ Len(hist) = 4
  /\ hist[4].value # empty
  /\ Cardinality(Held(this)) = 3

\* C4: if a and b are both present and a was touched after b, no call that
\* neither touches nor deletes a or b leaves a evicted while b is still
\* present.  The history keeps the order of a and b until one of them is
\* touched or deleted, so the step below covers every continuation.
C4_OlderKeyEvictedFirst ==
  constructed =>
    \A key \in Keys :
      LET present == (Held(this) \cap RefKeys(ref)) \ {key}
          Kept(c) ==
            \A a \in present, b \in present :
              RefValue(ref, a) < RefValue(ref, b) =>
                (a \in Held(c) \/ b \notin Held(c))
      IN /\ Kept(get(this, key).this)
         /\ Kept(delete(this, key).this)
         /\ \A value \in Values :
              /\ Kept(put(this, key, value).this)
              /\ Kept(set(this, key, value).this)

\* C4 witness: a full cache of capacity 3 after calls other than first
\* writes, whose next insertion evicts b and keeps the later touched a.
C4_Witness ==
  /\ constructed /\ capacity = 3 /\ ~pure
  /\ \E a \in Held(this), b \in Held(this), key \in Keys \ Held(this) :
       /\ RefValue(ref, a) < RefValue(ref, b)
       /\ a \in Held(put(this, key, undefined).this)
       /\ b \notin Held(put(this, key, undefined).this)

\* C5: get(k) of a present key returns the value of the most recent put or
\* set of k.  Every state after put(k, v1); put(k, v2) is a reachable state
\* whose history pairs k with v2, so that case is among those checked.
C5_GetReturnsLastWrittenValue ==
  constructed =>
    \A key \in Held(this) :
      /\ key \in RefKeys(ref)
      /\ ~get(this, key).threw
      /\ get(this, key).value = Stored(key)

\* C5 witness: a capacity 3 cache, past its run of first writes, holds two
\* keys; the most recently touched one stores undefined, get returns that,
\* and after put(k, empty) get returns empty.
C5_Witness ==
  /\ constructed /\ capacity = 3 /\ ~pure
  /\ Len(ref) = 2
  /\ ref[1].value = undefined
  /\ get(put(this, ref[1].key, empty).this, ref[1].key).value = empty
  /\ get(this, ref[1].key).value = undefined

\* C6: get(k) returns the miss result `empty` exactly when k is not
\* present; for a present key it returns the stored value, which is never
\* the miss result, whatever value the caller stored.
C6_MissDistinctFromEveryStoredValue ==
  constructed =>
    \A key \in Keys :
      IF key \in RefKeys(ref)
      THEN /\ get(this, key).value = Stored(key)
           /\ get(this, key).value # empty
      ELSE get(this, key).value = empty

\* C7: delete(k) returns true exactly when k was present; after it returned
\* true, k is a miss, and a key that is not present (deleted and not put
\* again) stays a miss, wherever its entry was in the list.
C7_DeleteReturnsPresenceAndRemoves ==
  constructed =>
    \A key \in Keys :
      LET r == delete(this, key)
      IN /\ ~r.threw
         /\ r.value = (key \in RefKeys(ref))
         /\ r.value => /\ key \notin Held(r.this)
                       /\ get(r.this, key) = Result(r.this, empty)
         /\ key \notin RefKeys(ref) => /\ key \notin Held(this)
                                       /\ get(this, key) = Result(this, empty)

\* C7 witness: after a deletion, a capacity 3 cache holds a key in an entry
\* that is neither the head nor the end, and delete of it returns true.
C7_Witness ==
  /\ constructed /\ capacity = 3 /\ credits > 0
  /\ \E key \in Held(this) :
       /\ entryMap[key] \notin {priorityListHead, priorityListEnd}
       /\ delete(this, key).value = TRUE
       /\ get(delete(this, key).this, key).value = empty

\* C8: delete(k) of a key that is not present returns false and leaves the
\* map, every entry's key, value, prev and next, and the head and the end
\* as they were.
C8_DeleteOfAbsentKeyChangesNothing ==
  constructed =>
    \A key \in Keys \ RefKeys(ref) :
      LET r == delete(this, key)
      IN /\ ~r.threw
         /\ r.value = FALSE
         /\ r.this = this

\* C8 witness: a full capacity 3 cache, reordered or deleted from before,
\* with a key that is not present.
C8_Witness ==
  /\ constructed /\ capacity = 3 /\ ~pure
  /\ Cardinality(Held(this)) = 3
  /\ \E key \in Keys \ RefKeys(ref) : delete(this, key).value = FALSE

\* C9: while deletions are not yet matched by insertions (credits > 0), a
\* put of a key that is not present evicts no key and changes no other
\* key's value; such a put evicts a key only when the cache is full again,
\* and then it does.
C9_FreedEntriesAreReusedFirst ==
  constructed =>
    \A key \in Keys \ RefKeys(ref), value \in Values :
      LET r == put(this, key, value)
          evicts == ~(Held(this) \subseteq Held(r.this))
      IN /\ credits > 0 =>
              /\ ~evicts
              /\ \A other \in Held(this) :
                   get(r.this, other).value = get(this, other).value
         /\ evicts <=> Cardinality(Held(this)) = capacity
         /\ evicts => credits = 0

\* C9 witness: two keys of a capacity 3 cache were deleted and one key is
\* left, so the next two insertions must spare it.
C9_Witness ==
  /\ constructed /\ capacity = 3 /\ credits = 2
  /\ Cardinality(Held(this)) = 1
  /\ \E key \in Keys \ Held(this) :
       Held(put(put(this, key, undefined).this, key, undefined).this)
         = Held(this) \cup {key}

\* A sequence of keys without one key.
Without(ks, key) ==
  LET Other(k) == k # key
  IN SelectSeq(ks, Other)

\* C10: get(k); get(k) leaves the state that a single get(k) leaves, both
\* calls return the same value, and the list order of the other keys is
\* the order before the reads.
C10_RepeatedGetIsIdempotent ==
  constructed =>
    \A key \in Keys :
      LET r1 == get(this, key)
          r2 == get(r1.this, key)
      IN /\ ~r1.threw /\ ~r2.threw
         /\ r2.this = r1.this
         /\ r2.value = r1.value
         /\ Without(ListKeys(r1.this), key) = Without(ListKeys(this), key)

\* C10 witness: a full capacity 3 cache whose end entry holds a key, so the
\* first get of it reorders the list.
C10_Witness ==
  /\ constructed /\ capacity = 3 /\ ~pure
  /\ Cardinality(Held(this)) = 3
  /\ \E key \in Held(this) :
       /\ entryMap[key] = priorityListEnd
       /\ get(this, key).this # this
       /\ ListKeys(get(this, key).this)[1] = key

\* C11: the constructor fails for every integer capacity below 1 and then
\* there is no cache object (no entry, no head, no end, no call possible);
\* it succeeds for every capacity from 1 on, 1 included, and then there is
\* an object with a head and an end.
C11_ConstructorFailsBelowOne ==
  /\ constructed <=> capacity >= 1
  /\ ConstructorThrows(capacity) <=> capacity < 1
  /\ ~constructed =>
       /\ entries = <<>> /\ entryMap = NewMap
       /\ priorityListHead = undefined /\ priorityListEnd = undefined
       /\ ~ENABLED Next
  /\ constructed =>
       /\ priorityListHead \in DOMAIN entries
       /\ priorityListEnd \in DOMAIN entries

\* C11 witness: the constructor was called with capacity 0 and threw.
C11_Witness ==
  /\ capacity = 0 /\ ~constructed
  /\ ConstructorThrows(capacity)
  /\ entries = <<>>

\* The entries that hold a key.
Occupied(c) == {e \in DOMAIN c.entries : c.entries[e].key # empty}

\* C12: in every reachable state, whatever keys were passed to put, the
\* map's size is the number of occupied entries, every map entry (k, s) has
\* s.key = k, no two entries hold the same key, and the keys of the
\* occupied entries are exactly the map's keys.
C12_IndexMatchesOccupiedEntries ==
  constructed =>
    /\ Cardinality(Held(this)) = Cardinality(Occupied(this))
    /\ \A k \in Held(this) :
         /\ entryMap[k] \in DOMAIN entries
         /\ entries[entryMap[k]].key = k
    /\ \A e1 \in Occupied(this), e2 \in Occupied(this) :
         entries[e1].key = entries[e2].key => e1 = e2
    /\ {entries[e].key : e \in Occupied(this)} = Held(this)

\* C13: in every reachable state the head has no prev, the end has no next,
\* following next from the head visits exactly `capacity` distinct entries,
\* all the entries there are, and ends at the end entry; prev is the inverse
\* of next along the way; and the end entry, if occupied, holds the least
\* recently touched present key.
C13_ListWellFormed ==
  constructed =>
    LET l == List(this)
    IN /\ entries[priorityListHead].prev = undefined
       /\ entries[priorityListEnd].next = undefined
       /\ Len(l) = capacity
       /\ Len(entries) = capacity
       /\ {l[i] : i \in DOMAIN l} = DOMAIN entries
       /\ l[1] = priorityListHead
       /\ l[Len(l)] = priorityListEnd
       /\ \A i \in 2 .. Len(l) : entries[l[i]].prev = l[i - 1]
       /\ entries[priorityListEnd].key # empty =>
            /\ Len(ref) > 0
            /\ entries[priorityListEnd].key = LeastRecent
            /\ LeastRecent \in Held(this)

\* C13 witness: a capacity 3 cache after a deletion and later insertions,
\* whose list order is no longer the order of construction and whose end
\* entry is occupied.
C13_Witness ==
  /\ constructed /\ capacity = 3 /\ ~pure
  /\ entries[priorityListEnd].key # empty
  /\ priorityListEnd = 1
  /\ List(this) = <<2, 3, 1>>
  /\ Cardinality(Held(this)) = 3

\* C14: with capacity 1 the head and the end are the same entry in every
\* reachable state; put(k, v) of a key other than the present one evicts
\* that one; put(k, v) of the present key only overwrites its value; and
\* after delete of the present key a put stores the new pair: the deleted
\* key is a miss and the new key reads back.
C14_CapacityOne ==
  (constructed /\ capacity = 1) =>
    /\ priorityListHead = priorityListEnd
    /\ Len(entries) = 1
    /\ \A key \in Keys, value \in Values :
         LET r == put(this, key, value)
         IN /\ ~r.threw
            /\ r.this.priorityListHead = r.this.priorityListEnd
            /\ Held(r.this) = {key}
            /\ get(r.this, key).value = value
            /\ key \in Held(this) =>
                 r.this = [this EXCEPT !.entries[entryMap[key]].value = value]
            /\ \A other \in Held(this) \ {key} :
                 /\ other \notin Held(r.this)
                 /\ get(r.this, other).value = empty
    /\ \A key \in Held(this) :
         LET d == delete(this, key)
         IN /\ d.value = TRUE
            /\ get(d.this, key).value = empty
            /\ \A new \in Keys, value \in Values :
                 LET r == put(d.this, new, value)
                 IN /\ ~r.threw
                    /\ Held(r.this) = {new}
                    /\ get(r.this, new).value = value
                    /\ new # key => get(r.this, key).value = empty

\* C14 witness: a capacity 1 cache whose only key was just deleted; a put
\* of another key stores it and the head is still the end.
C14_Witness ==
  /\ constructed /\ capacity = 1 /\ credits = 1
  /\ Held(this) = {}
  /\ priorityListHead = priorityListEnd
  /\ \E key \in Keys, other \in Keys :
       /\ other # key
       /\ get(put(this, key, undefined).this, key).value = undefined
       /\ Held(put(put(this, key, undefined).this, other, empty).this) = {other}

\* C15: for every capacity from 1 on, the constructor leaves exactly
\* `capacity` entries, each with key and value `empty`, linked as one
\* doubly-linked sequence from the head to the end, and an empty map; the
\* state before the first call is that object.
C15_ConstructorBuildsCapacityEntries ==
  constructed =>
    LET c == Constructor(capacity)
        l == List(c)
    IN /\ Len(c.entries) = capacity
       /\ \A e \in DOMAIN c.entries :
            c.entries[e].key = empty /\ c.entries[e].value = empty
       /\ c.entryMap = NewMap
       /\ Len(l) = capacity
       /\ {l[i] : i \in DOMAIN l} = DOMAIN c.entries
       /\ l[1] = c.priorityListHead
       /\ l[Len(l)] = c.priorityListEnd
       /\ c.entries[c.priorityListHead].prev = undefined
       /\ c.entries[c.priorityListEnd].next = undefined
       /\ \A i \in 2 .. Len(l) : c.entries[l[i]].prev = l[i - 1]
       /\ (pure /\ hist = <<>>) => this = c

\* C15 witness: a capacity 3 cache before its first call, with three
\* entries in the order of their construction.
C15_Witness ==
  /\ constructed /\ capacity = 3
  /\ pure /\ hist = <<>>
  /\ Len(entries) = 3
  /\ List(this) = <<1, 2, 3>>
  /\ Occupied(this) = {}

\* C16: get changes nothing but the list order.  A miss leaves the whole
\* state as it was; a hit leaves the map and every entry's key and value as
\* they were and moves the hit entry to the head, the other entries keeping
\* their order; a hit on the head changes nothing at all.
C16_GetChangesOnlyListOrder ==
  constructed =>
    \A key \in Keys :
      LET r == get(this, key)
      IN /\ ~r.threw
         /\ key \notin Held(this) => (r.this = this /\ r.value = empty)
         /\ key \in Held(this) =>
              LET hit == entryMap[key]
              IN /\ r.this.entryMap = entryMap
                 /\ DOMAIN r.this.entries = DOMAIN entries
                 /\ \A e \in DOMAIN entries :
                      /\ r.this.entries[e].key = entries[e].key
                      /\ r.this.entries[e].value = entries[e].value
                 /\ List(r.this) = <<hit>> \o Without(List(this), hit)
                 /\ r.this.priorityListEnd = List(r.this)[Len(entries)]
                 /\ hit = priorityListHead => r.this = this

\* C16 witness: a full capacity 3 cache holds a key in the entry between
\* the head and the end, and get of it moves that entry to the head.
C16_Witness ==
  /\ constructed /\ capacity = 3
  /\ Cardinality(Held(this)) = 3
  /\ \E key \in Held(this) :
       /\ entryMap[key] = List(this)[2]
       /\ List(get(this, key).this)
            = <<List(this)[2], List(this)[1], List(this)[3]>>
       /\ get(this, key).this.entryMap = entryMap

\* C17: put(k, v) of a present key overwrites the value in k's entry, makes
\* that entry the head, evicts no key and leaves the map as it was, also
\* when the cache is full; of repeated puts of k only the last value is
\* kept; and the put is a touch: the next insertion does not evict k.
C17_PutOfPresentKeyOverwritesInPlace ==
  constructed =>
    \A key \in Held(this), value \in Values :
      LET r == put(this, key, value)
          hit == entryMap[key]
      IN /\ ~r.threw
         /\ r.this.entryMap = entryMap
         /\ r.this.priorityListHead = hit
         /\ List(r.this) = <<hit>> \o Without(List(this), hit)
         /\ DOMAIN r.this.entries = DOMAIN entries
         /\ r.this.entries[hit].key = key
         /\ r.this.entries[hit].value = value
         /\ \A e \in DOMAIN entries \ {hit} :
              /\ r.this.entries[e].key = entries[e].key
              /\ r.this.entries[e].value = entries[e].value
         /\ \A last \in Values :
              LET r2 == put(r.this, key, last)
              IN /\ r2.this = [r.this EXCEPT !.entries[hit].value = last]
                 /\ get(r2.this, key).value = last
         /\ capacity > 1 =>
              \A new \in Keys \ Held(this) :
                key \in Held(put(r.this, new, value).this)

\* C17 witness: a full capacity 3 cache holds a key in its end entry; put
\* of that key makes the entry the head and the map keeps its three keys.
C17_Witness ==
  /\ constructed /\ capacity = 3
  /\ Cardinality(Held(this)) = 3
  /\ \E key \in Held(this) :
       /\ entryMap[key] = priorityListEnd
       /\ entries[priorityListEnd].value = undefined
       /\ put(this, key, empty).this.priorityListHead = entryMap[key]
       /\ put(this, key, empty).this.entries[entryMap[key]].value = empty
       /\ Held(put(this, key, empty).this) = Held(this)

\* C18: delete(k) of a present key sets the key and the value of k's entry
\* to `empty` and makes that entry the end of the list; if the entry was
\* the head, the new head is its former successor; if it was the end, no
\* link changes; every other present key keeps its value and the other
\* keys keep their order.
C18_DeleteMovesEntryToEnd ==
  constructed =>
    \A key \in Held(this) :
      LET r == delete(this, key)
          hit == entryMap[key]
      IN /\ ~r.threw /\ r.value = TRUE
         /\ r.this.entryMap = MapDelete(entryMap, key)
         /\ DOMAIN r.this.entries = DOMAIN entries
         /\ r.this.entries[hit].key = empty
         /\ r.this.entries[hit].value = empty
         /\ r.this.priorityListEnd = hit
         /\ List(r.this) = Without(List(this), hit) \o <<hit>>
         /\ (hit = priorityListHead /\ hit # priorityListEnd) =>
              r.this.priorityListHead = entries[hit].next
         /\ hit # priorityListHead =>
              r.this.priorityListHead = priorityListHead
         /\ hit = priorityListEnd =>
              /\ r.this.priorityListHead = priorityListHead
              /\ \A e \in DOMAIN entries :
                   /\ r.this.entries[e].prev = entries[e].prev
                   /\ r.this.entries[e].next = entries[e].next
         /\ \A e \in DOMAIN entries \ {hit} :
              /\ r.this.entries[e].key = entries[e].key
              /\ r.this.entries[e].value = entries[e].value
         /\ ListKeys(r.this) = Without(ListKeys(this), key)
         /\ \A other \in Held(this) \ {key} :
              get(r.this, other).value = get(this, other).value

\* C18 witness: a full capacity 3 cache, reordered by earlier calls, whose
\* head, middle and end keys are each deleted: the head's successor becomes
\* the head, and the freed entry is the end each time.
C18_Witness ==
  /\ constructed /\ capacity = 3 /\ ~pure
  /\ Cardinality(Held(this)) = 3
  /\ List(this) # <<1, 2, 3>>
  /\ LET l == List(this)
         h == entries[l[1]].key
         m == entries[l[2]].key
         t == entries[l[3]].key
     IN /\ List(delete(this, h).this) = <<l[2], l[3], l[1]>>
        /\ List(delete(this, m).this) = <<l[1], l[3], l[2]>>
        /\ List(delete(this, t).this) = l
        /\ ListKeys(delete(this, m).this) = <<h, t>>

\* C19: after construction no call fails.  In every reachable state every
\* entry but the head has a prev and every entry but the end has a next
\* (so each non-null assertion of promoteToHeadOfPriorityList and delete
\* holds for whichever entry is promoted or deleted), the head and the end
\* are entries, and no get, put, set or delete reads a property of
\* undefined.
C19_NoCallDereferencesUndefined ==
  constructed =>
    /\ priorityListHead \in DOMAIN entries
    /\ priorityListEnd \in DOMAIN entries
    /\ \A e \in DOMAIN entries :
         /\ e # priorityListHead => entries[e].prev \in DOMAIN entries
         /\ e # priorityListEnd => entries[e].next \in DOMAIN entries
    /\ \A key \in Keys :
         /\ ~get(this, key).threw
         /\ ~delete(this, key).threw
         /\ \A value \in Values :
              /\ ~put(this, key, value).threw
              /\ ~set(this, key, value).threw

\* C19 witness: after a deletion a capacity 3 cache holds two keys, one in
\* the head and one in the entry between the head and the end; reading and
\* deleting the second passes the assertions on both of its neighbours.
C19_Witness ==
  /\ constructed /\ capacity = 3 /\ credits = 1
  /\ Cardinality(Held(this)) = 2
  /\ \E key \in Held(this) :
       LET e == entryMap[key]
       IN /\ e \notin {priorityListHead, priorityListEnd}
          /\ entries[e].prev = priorityListHead
          /\ entries[e].next = priorityListEnd
          /\ ~get(this, key).threw
          /\ ~delete(this, key).threw

\* C20: in every reachable state the occupied entries are the first entries
\* of the list and the unoccupied ones the last; so the end entry is
\* occupied exactly when the cache holds `capacity` keys, and put removes a
\* held key from the map only when the cache is full.
C20_OccupiedEntriesFormPrefix ==
  constructed =>
    LET l == List(this)
        n == Cardinality(Occupied(this))
    IN /\ \A i \in DOMAIN l : (entries[l[i]].key # empty) <=> (i <= n)
       /\ (entries[priorityListEnd].key # empty)
            <=> (Cardinality(Held(this)) = capacity)
       /\ \A key \in Keys, value \in Values :
            ~(Held(this) \subseteq Held(put(this, key, value).this))
              => Cardinality(Held(this)) = capacity

\* C20 witness: two keys of a capacity 3 cache were deleted; one occupied
\* entry is followed by two unoccupied ones, in an order that is not the
\* order of construction.
C20_Witness ==
  /\ constructed /\ capacity = 3 /\ credits = 2
  /\ Cardinality(Occupied(this)) = 1
  /\ List(this) = <<2, 1, 3>>
  /\ entries[2].key # empty
  /\ entries[1].key = empty /\ entries[3].key = empty

\* ------------------------------------- the README's NaiveLRUCache
\* private cache = new Map<K, V>(): a Map iterates in insertion order, so
\* it is the sequence of its pairs, oldest insertion first.

\* Map.prototype.has
NaiveMapHas(cache, key) == \E i \in DOMAIN cache : cache[i].key = key

\* Map.prototype.get: undefined for a key the Map does not hold
NaiveMapGet(cache, key) ==
  IF NaiveMapHas(cache, key)
  THEN cache[CHOOSE i \in DOMAIN cache : cache[i].key = key].value
  ELSE undefined

\* Map.prototype.delete
NaiveMapDelete(cache, key) ==
  LET Other(p) == p.key # key
  IN SelectSeq(cache, Other)

\* Map.prototype.set: a new key is inserted last, a held key keeps its place
NaiveMapSet(cache, key, value) ==
  IF NaiveMapHas(cache, key)
  THEN [i \in DOMAIN cache |->
          IF cache[i].key = key THEN [key |-> key, value |-> value] ELSE cache[i]]
  ELSE Append(cache, [key |-> key, value |-> value])

\* NaiveLRUCache.get(key)
NaiveGet(cache, key) ==
  LET value == NaiveMapGet(cache, key)
  IN [cache |-> IF value # undefined
                THEN NaiveMapSet(NaiveMapDelete(cache, key), key, value)
                ELSE cache,
      value |-> value]

\* NaiveLRUCache.put(key, value)
NaivePut(cache, key, value, cap) ==
  LET kept == IF NaiveMapHas(cache, key) THEN NaiveMapDelete(cache, key)
              ELSE IF Len(cache) >= cap
                   THEN \* firstKey = this.cache.keys().next().value
                        NaiveMapDelete(cache, cache[1].key)
                   ELSE cache
  IN NaiveMapSet(kept, key, value)

\* The naive cache after a sequence of puts on a new one.
RECURSIVE NaiveAfterPuts(_, _)
NaiveAfterPuts(puts, cap) ==
  IF puts = <<>> THEN <<>>
  ELSE LET last == puts[Len(puts)]
       IN NaivePut(NaiveAfterPuts(SubSeq(puts, 1, Len(puts) - 1), cap),
                   last.key, last.value, cap)

\* A sequence read backwards.
Reverse(s) == [i \in DOMAIN s |-> s[Len(s) + 1 - i]]

\* The pairs of the occupied entries, from the head to the end.
Pairs(c) ==
  LET l == List(c)
      ps == [i \in DOMAIN l |->
               [key |-> c.entries[l[i]].key, value |-> c.entries[l[i]].value]]
      IsOccupied(p) == p.key # empty
  IN SelectSeq(ps, IsOccupied)

\* C21, as stated: the cache run side by side with the README's
\* NaiveLRUCache.  After any puts of distinct keys on both, the occupied
\* entries from the head to the end are the naive Map's pairs from the
\* newest to the oldest; every get returns the same in both (the naive
\* cache's undefined for a key it does not hold being its miss) and every
\* get and put leaves the two sequences equal.
C21_RefinesReadmeNaiveCache ==
  (constructed /\ pure) =>
    LET naive == NaiveAfterPuts(hist, capacity)
    IN /\ Pairs(this) = Reverse(naive)
       /\ \A key \in Keys :
            LET n == NaiveGet(naive, key)
                r == get(this, key)
            IN /\ IF NaiveMapHas(naive, key)
                  THEN r.value = n.value
                  ELSE r.value = empty /\ n.value = undefined
               /\ Pairs(r.this) = Reverse(n.cache)
       /\ \A key \in Keys, value \in Values :
            Pairs(put(this, key, value).this)
              = Reverse(NaivePut(naive, key, value, capacity))

\* C21, amended: the cache refines the reference sequence in which every
\* get of a present key is a touch, whatever value is stored.  Run side by
\* side on any calls, the pairs of the occupied entries from the head to
\* the end are the reference pairs from the most to the least recently
\* touched, at most `capacity` of them; get returns the reference value or
\* the miss marker and delete returns the reference's presence.  The
\* README's naive cache agrees on put, and on get for every stored value
\* but undefined.
C21_RefinesReferenceCache ==
  constructed =>
    /\ Pairs(this) = ref
    /\ Len(ref) <= capacity
    /\ \A key \in Keys :
         /\ get(this, key).value
              = (IF key \in RefKeys(ref) THEN Stored(key) ELSE empty)
         /\ delete(this, key).value = (key \in RefKeys(ref))
    /\ pure =>
         LET naive == NaiveAfterPuts(hist, capacity)
         IN /\ ref = Reverse(naive)
            /\ \A key \in Keys :
                 NaiveMapGet(naive, key) # undefined =>
                   /\ get(this, key).value = NaiveGet(naive, key).value
                   /\ Pairs(get(this, key).this)
                        = Reverse(NaiveGet(naive, key).cache)

\* C21 witness: a full capacity 3 cache after reads or deletions, whose
\* least recently touched key stores undefined; get of it makes its pair
\* the first of the occupied entries, as the reference does.
C21_Witness ==
  /\ constructed /\ capacity = 3 /\ ~pure
  /\ Len(ref) = 3
  /\ ref[3].value = undefined
  /\ ref[1].value = empty
  /\ Pairs(this) = ref
  /\ Pairs(get(this, ref[3].key).this) = <<ref[3], ref[1], ref[2]>>
  /\ RefGet(ref, ref[3].key) = <<ref[3], ref[1], ref[2]>>

====
